---- MODULE Spec2Model ----
(***************************************************************************)
(* A model of the per-room outbound event queue of purple-matrix           *)
(* (src/matrix-room.c): the queue of MatrixRoomEvents kept on the          *)
(* conversation, the single "active_send" handle, the two-phase image      *)
(* pipeline (upload, then send), cancellation and leaving the room.        *)
(*                                                                         *)
(* Every handler is an operator from a session record to a session record, *)
(* so that a handler which calls another one (a completion callback that   *)
(* dispatches the next event, a cancel that runs the error callback) is    *)
(* one step.  The variables are the fields of that record.                 *)
(***************************************************************************)
EXTENDS Naturals, Sequences, FiniteSets, TLC

\* Bound: events enqueued during the lifetime of one room session.
MaxEvents == 3

\* Bound: distinct image-store ids a message may refer to.
MaxImages == 1

ImageIds == 1..MaxImages

\* The parts of a message handed to matrix_room_send_message: a run of text,
\* or an <img id=N> tag.
TextPart == [tag |-> "text", id |-> 0]

ImgPart(i) == [tag |-> "img", id |-> i]

Messages ==
    {<<TextPart>>}
    \cup {<<ImgPart(i)>> : i \in ImageIds}
    \cup {<<TextPart, ImgPart(i)>> : i \in ImageIds}
    \cup {<<ImgPart(i), TextPart>> : i \in ImageIds}
    \cup {<<TextPart, ImgPart(i), TextPart>> : i \in ImageIds}

\* What a use of freed memory may do: fault, or find the block still intact.
UBOutcomes == {"crash", "intact"}

\* Bound: members of the room besides the local user.
MaxOthers == 3

\* User ids; 0 is the local user (conn->user_id).
Me == 0

Users == 0..MaxOthers

\* A NULL string.
NoName == "(null)"

\* No event in a slot of the state table.
Absent == [membership |-> "absent", displayname |-> NoName, value |-> NoName]

\* No state event.
NoEvent == [type |-> NoName, state_key |-> Me, content |-> Absent]

\* Display names a member event may carry.
Names == {"Alice", "Bob"}

\* PURPLE_CONV_FLAG_NEEDS_NAME_UPDATE, and the flags word without it.
PURPLE_CONV_FLAG_NEEDS_NAME_UPDATE == 1

NoFlags == 0

\* conv->name: the room id the conversation was created with.
RoomId == "!room:hs"

VARIABLES
    queue,          \* PURPLE_CONV_DATA_EVENT_QUEUE: the GList of events
    active_send,    \* PURPLE_CONV_DATA_ACTIVE_SEND: a request handle or NULL
    state_table,    \* PURPLE_CONV_DATA_STATE: "table" or "NULL"
    member_table,   \* PURPLE_CONV_MEMBER_TABLE: "table" or "NULL"
    wants_to_die,   \* pc->wants_to_die
    outstanding,    \* the transport's requests whose callback is still due
    imgstore,       \* libpurple image store: reference count per id, 0 = absent
    uiRef,          \* whether the UI still holds its own reference to an image
    proc,           \* "running", "crashed" (memory fault) or "aborted" (g_assert)
    enqueued,       \* history: what was enqueued, by enqueue order
    completed,      \* history: events removed by _event_send_complete, in order
    uploaded,       \* history: events whose upload returned a content_uri
    released,       \* history: per event, unrefs that hit the image
    exits,          \* history: events whose request ended in a callback
    monotonic,      \* g_get_monotonic_time(): the reading of the k-th enqueue
    random,         \* g_random_int(): the reading of the k-th enqueue
    flags,          \* PURPLE_CONV_DATA_FLAGS
    state_events,   \* content of the state table: (type, key) -> event
    members,        \* content of the member table: user -> MatrixRoomMember
    pending,        \* the member table's new / renamed / left lists
    ui,             \* the conversation as the UI has it
    delivered,      \* history: number of state events handled
    last            \* what the most recent operation did

vars == <<queue, active_send, state_table, member_table, wants_to_die,
          outstanding, imgstore, uiRef, proc, enqueued, completed, uploaded,
          released, exits, monotonic, random, flags, state_events, members,
          pending, ui, delivered, last>>

\* The null request handle.
NULL == [h |-> 0, kind |-> "none", ev |-> 0]

NoTable == "NULL"

\* The session as one record.
S ==
    [queue |-> queue, active_send |-> active_send, state_table |-> state_table,
     member_table |-> member_table, wants_to_die |-> wants_to_die,
     outstanding |-> outstanding, imgstore |-> imgstore, uiRef |-> uiRef,
     proc |-> proc, enqueued |-> enqueued, completed |-> completed,
     uploaded |-> uploaded, released |-> released, exits |-> exits,
     monotonic |-> monotonic, random |-> random, flags |-> flags,
     state_events |-> state_events, members |-> members,
     pending |-> pending, ui |-> ui, delivered |-> delivered, last |-> last]

\* The step's next state is the record t (evaluated once).
Commit(t) ==
    \E r \in {t} :
        /\ queue' = r.queue
        /\ active_send' = r.active_send
        /\ state_table' = r.state_table
        /\ member_table' = r.member_table
        /\ wants_to_die' = r.wants_to_die
        /\ outstanding' = r.outstanding
        /\ imgstore' = r.imgstore
        /\ uiRef' = r.uiRef
        /\ proc' = r.proc
        /\ enqueued' = r.enqueued
        /\ completed' = r.completed
        /\ uploaded' = r.uploaded
        /\ released' = r.released
        /\ exits' = r.exits
        /\ monotonic' = r.monotonic
        /\ random' = r.random
        /\ flags' = r.flags
        /\ state_events' = r.state_events
        /\ members' = r.members
        /\ pending' = r.pending
        /\ ui' = r.ui
        /\ delivered' = r.delivered
        /\ last' = r.last

NoEffects(name) ==
    [name |-> name, errors |-> 0, issued |-> <<>>, leaves |-> 0,
     cancelled |-> NULL, nullFree |-> FALSE, uaf |-> FALSE, calls |-> <<>>,
     echo |-> FALSE, failed |-> "none", event |-> NoEvent, first |-> FALSE]

\* The session at the entry of operation `name`.
Begin(name) == [S EXCEPT !.last = NoEffects(name)]

InQueue(q, ev) == \E i \in 1..Len(q) : q[i].seq = ev

QIndex(q, ev) == CHOOSE i \in 1..Len(q) : q[i].seq = ev

QueueSeqs(q) == [i \in 1..Len(q) |-> q[i].seq]

RECURSIVE Iota(_)
Iota(n) == IF n = 0 THEN <<>> ELSE Append(Iota(n - 1), n)

(***************************************************************************)
(* The transport (matrix-api) and the image store (libpurple).             *)
(***************************************************************************)

\* A handle no live or remembered request uses.
NewHandle(s) ==
    LET used == {r.h : r \in s.outstanding} \cup {s.active_send.h}
    IN  CHOOSE h \in 1..(Cardinality(used) + 1) :
            /\ h \notin used
            /\ \A k \in 1..(h - 1) : k \in used

Request(s, kind, ev) == [h |-> NewHandle(s), kind |-> kind, ev |-> ev]

\* matrix_api_send: a request that will call back exactly once.
matrix_api_send(s, r) ==
    [s EXCEPT !.outstanding = @ \cup {r},
              !.last.issued = Append(@, [kind |-> r.kind, ev |-> r.ev])]

\* matrix_api_upload_file: likewise.
matrix_api_upload_file(s, r) ==
    [s EXCEPT !.outstanding = @ \cup {r},
              !.last.issued = Append(@, [kind |-> r.kind, ev |-> r.ev])]

\* matrix_api_error / matrix_api_bad_response: report on the connection.
matrix_api_error(s) == [s EXCEPT !.last.errors = @ + 1]

matrix_api_bad_response(s) == [s EXCEPT !.last.errors = @ + 1]

\* matrix_api_leave_room: the leave request (no callbacks are registered).
matrix_api_leave_room(s) == [s EXCEPT !.last.leaves = @ + 1]

\* purple_imgstore_find_by_id: NULL when the id is not in the store.
ImageFound(s, img) == s.imgstore[img] > 0

\* purple_imgstore_unref on the result of find_by_id: a no-op on NULL, else
\* one reference less (at zero the image leaves the store).
purple_imgstore_unref(s, img, ev) ==
    IF ImageFound(s, img)
    THEN [s EXCEPT !.imgstore[img] = @ - 1, !.released[ev] = @ + 1]
    ELSE s

\* purple_imgstore_ref_by_id: a no-op when the id is not in the store.
purple_imgstore_ref_by_id(s, img) ==
    IF ImageFound(s, img) THEN [s EXCEPT !.imgstore[img] = @ + 1] ELSE s

\* A handler reads the SendImageData of event ev: freed with the event, so a
\* read after the event left the queue is a use of freed memory.
ReadHookData(s, ev, ub) ==
    IF InQueue(s.queue, ev) THEN s
    ELSE [s EXCEPT !.last.uaf = TRUE,
                   !.proc = IF ub = "crash" THEN "crashed" ELSE @]

(***************************************************************************)
(* Event queue handling.                                                   *)
(***************************************************************************)

\* _send_image_hook: phase 1 of an image event, the upload.  Returns without
\* touching active_send when the image is not in the store.
_send_image_hook(s, event) ==
    IF ~ImageFound(s, event.img) THEN s
    ELSE LET i  == QIndex(s.queue, event.seq)
             s1 == [s EXCEPT !.queue[i].body = TRUE]
             r  == Request(s1, "upload", event.seq)
         IN  [matrix_api_upload_file(s1, r) EXCEPT !.active_send = r]

\* _send_queued_event taking the newest event (g_list_last) instead of the head.
_send_queued_event_last(s) ==
    IF s.queue = <<>> THEN [s EXCEPT !.active_send = NULL]
    ELSE IF s.wants_to_die THEN [s EXCEPT !.active_send = NULL]
    ELSE LET event == s.queue[Len(s.queue)]
         IN  IF event.hook THEN _send_image_hook(s, event)
             ELSE LET r == Request(s, "send", event.seq)
                  IN  [matrix_api_send(s, r) EXCEPT !.active_send = r]

\* _send_queued_event: send the head of the queue, unless the queue is empty
\* or the connection is closing; a hooked event goes to its hook instead, and
\* that path returns before active_send is stored.
_send_queued_event(s) ==
    IF s.queue = <<>> THEN [s EXCEPT !.active_send = NULL]
    ELSE IF s.wants_to_die THEN [s EXCEPT !.active_send = NULL]
    ELSE LET event == Head(s.queue)
         IN  IF event.hook THEN _send_image_hook(s, event)
             ELSE LET r == Request(s, "send", event.seq)
                  IN  [matrix_api_send(s, r) EXCEPT !.active_send = r]

\* _event_send_complete removing the last element of the list.
_event_send_complete_last(s) ==
    IF s.queue = <<>> THEN [s EXCEPT !.proc = "crashed"]
    ELSE LET n  == Len(s.queue)
             s1 == [s EXCEPT !.queue = SubSeq(@, 1, n - 1),
                             !.completed = Append(@, s.queue[n].seq)]
         IN  _send_queued_event(s1)

\* _event_send_complete: free and remove the head, dispatch the next event.
\* With an empty list, event_queue->data reads through a null pointer.
_event_send_complete(s) ==
    IF s.queue = <<>> THEN [s EXCEPT !.proc = "crashed"]
    ELSE LET event == Head(s.queue)
             s1 == [s EXCEPT !.queue = Tail(@),
                             !.completed = Append(@, event.seq)]
         IN  _send_queued_event(s1)

\* _event_send_error without the line that clears the handle.
_event_send_error_keeps_handle(s) == matrix_api_error(s)

\* _event_send_error: report, clear the handle, leave the event queued.
_event_send_error(s) ==
    [matrix_api_error(s) EXCEPT !.active_send = NULL]

\* _event_send_bad_response that retries at once.
_event_send_bad_response_retry(s) ==
    _send_queued_event(matrix_api_bad_response(s))

\* _event_send_bad_response: the same for a non-200 response.
_event_send_bad_response(s) ==
    [matrix_api_bad_response(s) EXCEPT !.active_send = NULL]

\* _image_upload_complete without the test for a missing content_uri.
_image_upload_complete_no_check(s, ev, has_uri, ub) ==
    LET s0  == ReadHookData(s, ev, ub)
        img == s.enqueued[ev].img
    IN  IF s0.proc # "running" THEN s0
        ELSE LET s1 == IF InQueue(s0.queue, ev)
                       THEN [s0 EXCEPT !.queue[QIndex(s0.queue, ev)].url = has_uri,
                                       !.uploaded = @ \cup {ev}]
                       ELSE s0
                 r  == Request(s1, "send", ev)
                 s2 == [matrix_api_send(s1, r) EXCEPT !.active_send = r]
             IN  purple_imgstore_unref(s2, img, ev)

\* _image_upload_complete: with a content_uri, phase 2: put the url in the
\* event and send it; without one, report and release, and return with
\* active_send as it was.  sid->imgstore_id is the id given at submission.
_image_upload_complete(s, ev, has_uri, ub) ==
    LET s0  == ReadHookData(s, ev, ub)
        img == s.enqueued[ev].img
    IN  IF s0.proc # "running" THEN s0
        ELSE IF ~has_uri
        THEN purple_imgstore_unref(matrix_api_error(s0), img, ev)
        ELSE LET s1 == IF InQueue(s0.queue, ev)
                       THEN [s0 EXCEPT !.queue[QIndex(s0.queue, ev)].url = TRUE,
                                       !.uploaded = @ \cup {ev}]
                       ELSE s0
                 r  == Request(s1, "send", ev)
                 s2 == [matrix_api_send(s1, r) EXCEPT !.active_send = r]
             IN  purple_imgstore_unref(s2, img, ev)

\* _image_upload_bad_response: report, release, clear the handle.
_image_upload_bad_response(s, ev, ub) ==
    LET s0  == ReadHookData(s, ev, ub)
        img == s.enqueued[ev].img
    IN  IF s0.proc # "running" THEN s0
        ELSE [purple_imgstore_unref(matrix_api_bad_response(s0), img, ev)
                  EXCEPT !.active_send = NULL]

\* _image_upload_error: report, release, clear the handle.
_image_upload_error(s, ev, ub) ==
    LET s0  == ReadHookData(s, ev, ub)
        img == s.enqueued[ev].img
    IN  IF s0.proc # "running" THEN s0
        ELSE [purple_imgstore_unref(matrix_api_error(s0), img, ev)
                  EXCEPT !.active_send = NULL]

\* g_strdup_printf("%"G_GINT64_FORMAT"%"G_GUINT32_FORMAT, time, salt): the
\* two numbers in decimal, one right after the other.
TxnId(time, salt) == ToString(time) \o ToString(salt)

\* _enqueue_event without the test of active_send.
_enqueue_event_no_gate(s, hook, img) ==
    LET seq   == Len(s.enqueued) + 1
        event == [seq |-> seq, hook |-> hook, img |-> img,
                  body |-> ~hook, url |-> FALSE,
                  txn_id |-> TxnId(s.monotonic[seq], s.random[seq])]
        s1    == [s EXCEPT !.queue = Append(@, event),
                           !.enqueued = Append(@, [hook |-> hook, img |-> img,
                                                   ref |-> FALSE]),
                           !.released = Append(@, 0)]
    IN  _send_queued_event(s1)

\* _enqueue_event: append a new event; dispatch unless a send is active.
_enqueue_event(s, hook, img) ==
    LET seq   == Len(s.enqueued) + 1
        event == [seq |-> seq, hook |-> hook, img |-> img,
                  body |-> ~hook, url |-> FALSE,
                  txn_id |-> TxnId(s.monotonic[seq], s.random[seq])]
        s1    == [s EXCEPT !.queue = Append(@, event),
                           !.enqueued = Append(@, [hook |-> hook, img |-> img,
                                                   ref |-> FALSE]),
                           !.released = Append(@, 0)]
    IN  IF s1.active_send # NULL THEN s1 ELSE _send_queued_event(s1)

\* The error callback a request was registered with.
ErrorCallback(s, r, ub) ==
    IF r.kind = "upload" THEN _image_upload_error(s, r.ev, ub)
    ELSE _event_send_error(s)

\* matrix_api_cancel: cancel synchronously; the request's error callback
\* runs before the call returns and the request is freed.  On a handle whose
\* request has already called back the request block is freed memory.
matrix_api_cancel(s, r, ub) ==
    IF r \in s.outstanding
    THEN ErrorCallback([s EXCEPT !.outstanding = @ \ {r},
                                 !.exits = @ \cup {r.ev}], r, ub)
    ELSE IF ub = "crash" THEN [s EXCEPT !.proc = "crashed"]
    ELSE ErrorCallback(s, r, ub)

\* _cancel_event_send: cancel the active send, if any, and assert that the
\* handle is null afterwards.
_cancel_event_send(s, ub) ==
    IF s.active_send = NULL THEN s
    ELSE LET s0 == [s EXCEPT !.last.cancelled = s.active_send]
             s1 == matrix_api_cancel(s0, s.active_send, ub)
         IN  IF s1.proc # "running" THEN s1
             ELSE IF s1.active_send # NULL THEN [s1 EXCEPT !.proc = "aborted"]
             ELSE s1

\* The second half of matrix_room_leave_chat: the leave request, then the
\* state table, the member table and the queue are destroyed and nulled.
FreeRoomState(s) ==
    LET s1 == matrix_api_leave_room(s)
        s2 == [s1 EXCEPT !.last.nullFree = @ \/ (s1.state_table = NoTable),
                         !.state_table = NoTable]
        s3 == [s2 EXCEPT !.last.nullFree = @ \/ (s2.member_table = NoTable),
                         !.member_table = NoTable]
    IN  IF s3.queue # <<>> THEN [s3 EXCEPT !.queue = <<>>] ELSE s3

\* matrix_room_leave_chat freeing the room state before it cancels.
matrix_room_leave_chat_free_first(s, ub) ==
    _cancel_event_send(FreeRoomState(s), ub)

\* matrix_room_leave_chat without the cancel of the active send.
matrix_room_leave_chat_no_cancel(s, ub) == FreeRoomState(s)

\* matrix_room_leave_chat: cancel first, then free.
matrix_room_leave_chat(s, ub) ==
    LET s1 == _cancel_event_send(s, ub)
    IN  IF s1.proc # "running" THEN s1 ELSE FreeRoomState(s1)

\* matrix_room_send_image: enqueue an image event with the image hook
\* (nothing is done for image id 0).
matrix_room_send_image(s, imgstore_id) ==
    IF imgstore_id = 0 THEN s ELSE _enqueue_event(s, TRUE, imgstore_id)

FirstImage(msg) ==
    CHOOSE k \in 1..Len(msg) :
        /\ msg[k].tag = "img"
        /\ \A j \in 1..(k - 1) : msg[j].tag # "img"

\* matrix_room_send_message that enqueues the image before the text in front
\* of it.
matrix_room_send_message_image_first(s, msg) ==
    IF \E k \in 1..Len(msg) : msg[k].tag = "img"
    THEN LET k  == FirstImage(msg)
             s1 == purple_imgstore_ref_by_id(s, msg[k].id)
             s2 == matrix_room_send_image(s1, msg[k].id)
             s3 == IF k > 1 THEN _enqueue_event(s2, FALSE, 0) ELSE s2
         IN  IF k < Len(msg) THEN _enqueue_event(s3, FALSE, 0) ELSE s3
    ELSE _enqueue_event(s, FALSE, 0)

\* matrix_room_send_message: a message with an <img> tag is split into the
\* text before it, the image (after taking a reference on it) and the rest;
\* a message without one is enqueued as one text event.  The history notes
\* for the image event whether purple_imgstore_ref_by_id found the image.
RECURSIVE matrix_room_send_message(_, _)
matrix_room_send_message(s, msg) ==
    IF \E k \in 1..Len(msg) : msg[k].tag = "img"
    THEN LET k  == FirstImage(msg)
             s1 == purple_imgstore_ref_by_id(s, msg[k].id)
             s2 == IF k > 1
                   THEN matrix_room_send_message(s1, SubSeq(msg, 1, k - 1))
                   ELSE s1
             s3 == matrix_room_send_image(s2, msg[k].id)
             s4 == IF Len(s3.enqueued) > Len(s2.enqueued)
                   THEN [s3 EXCEPT !.enqueued[Len(s3.enqueued)].ref =
                                       ImageFound(s, msg[k].id)]
                   ELSE s3
         IN  IF k < Len(msg)
             THEN matrix_room_send_message(s4, SubSeq(msg, k + 1, Len(msg)))
             ELSE s4
    ELSE _enqueue_event(s, FALSE, 0)

(***************************************************************************)
(* Incoming timeline events.                                               *)
(***************************************************************************)

\* One call into the UI: the operation, the names it is about, and the
\* second argument (new name, title or message text) where it has one.
UiCall(op, names, to) == [op |-> op, names |-> names, to |-> to]

\* matrix_roommembers_lookup_member / matrix_roommember_get_displayname.
HasMember(s, u) == u \in Users /\ s.members[u].membership # "none"

\* serv_got_chat_in(gc, id, who, PURPLE_MESSAGE_RECV, text, time).
serv_got_chat_in(s, who, text) ==
    [s EXCEPT !.last.calls = Append(@, UiCall("got_chat_in", <<who>>, text))]

\* The sender field of an event: a user id, or missing.  Users are numbers,
\* so the missing sender is a number no user has.
NoSender == MaxOthers + 1

\* The rest of matrix_room_handle_timeline_event, past the echo test.
ShowMessage(s, ev) ==
    LET sender_display_name ==
            IF ev.sender # NoSender /\ HasMember(s, ev.sender)
            THEN s.members[ev.sender].displayname
            ELSE "<unknown>"
        text == IF ev.msgtype = "m.emote" THEN "/me " \o ev.body ELSE ev.body
    IN  serv_got_chat_in(s, sender_display_name, text)

\* matrix_room_handle_timeline_event without the test of transaction_id.
matrix_room_handle_timeline_event_no_echo_test(s, ev) ==
    IF ev.type = NoName THEN s
    ELSE IF ev.type # "m.room.message" THEN s
    ELSE IF ev.body = NoName THEN s
    ELSE IF ev.msgtype = NoName THEN s
    ELSE ShowMessage(s, ev)

\* matrix_room_handle_timeline_event: only m.room.message events with a body
\* and a msgtype are looked at; one that carries unsigned.transaction_id is
\* an echo and is dropped; any other is written to the conversation.
matrix_room_handle_timeline_event(s, ev) ==
    IF ev.type = NoName THEN s
    ELSE IF ev.type # "m.room.message" THEN s
    ELSE IF ev.body = NoName THEN s
    ELSE IF ev.msgtype = NoName THEN s
    ELSE IF ev.transaction_id # NoName THEN s
    ELSE ShowMessage(s, ev)

\* The transaction ids of the events in the queue.
QueuedTxnIds(q) == {q[i].txn_id : i \in 1..Len(q)}

\* Room events the sync may deliver.
TimelineEvents(q) ==
    LET message == [type |-> "m.room.message", body |-> "hello",
                    msgtype |-> "m.text", transaction_id |-> NoName,
                    sender |-> NoSender]
    IN  {[message EXCEPT !.type = ty] : ty \in {NoName, "m.room.topic"}}
        \cup {[message EXCEPT !.body = NoName],
              [message EXCEPT !.msgtype = NoName]}
        \cup {[message EXCEPT !.msgtype = mt, !.transaction_id = id,
                              !.sender = u] :
                  mt \in {"m.text", "m.emote"},
                  id \in {NoName, "remote"} \cup QueuedTxnIds(q),
                  u \in {NoSender, Me, 1}}

(***************************************************************************)
(* The name of the room.                                                   *)
(***************************************************************************)

\* The members of the table in the order the table lists them.
UserList == [i \in 1..(MaxOthers + 1) |-> i - 1]

\* matrix_roommembers_get_active_members: the joined members, and the
\* invited ones when include_invited.
ActiveMember(s, u, include_invited) ==
    \/ s.members[u].membership = "join"
    \/ include_invited /\ s.members[u].membership = "invite"

matrix_roommembers_get_active_members(s, include_invited) ==
    SelectSeq(UserList, LAMBDA u : ActiveMember(s, u, include_invited))

\* matrix_statetable_get_room_alias: the room's name, else its canonical
\* alias, else an alias, else NULL.
matrix_statetable_get_room_alias(s) ==
    IF s.state_events[<<"m.room.name", Me>>].value # NoName
    THEN s.state_events[<<"m.room.name", Me>>].value
    ELSE IF s.state_events[<<"m.room.canonical_alias", Me>>].value # NoName
    THEN s.state_events[<<"m.room.canonical_alias", Me>>].value
    ELSE s.state_events[<<"m.room.alias", Me>>].value

\* _get_room_name_from_members with the count taken after the first name.
_get_room_name_from_members_rest(s) ==
    LET all     == matrix_roommembers_get_active_members(s, TRUE)
        others  == SelectSeq(all, LAMBDA u : u # Me)
        member1 == s.members[Head(others)].displayname
    IN  IF others = <<>> THEN NoName
        ELSE IF Len(others) = 1 THEN member1
        ELSE IF Len(others) = 2
        THEN member1 \o " and " \o s.members[others[2]].displayname
        ELSE member1 \o " and " \o ToString(Len(others) - 1) \o " others"

\* _get_room_name_from_members: a name made of the display names of the
\* active members other than ourselves; NULL when there is nobody else.
_get_room_name_from_members(s) ==
    LET all     == matrix_roommembers_get_active_members(s, TRUE)
        others  == SelectSeq(all, LAMBDA u : u # Me)
        member1 == s.members[Head(others)].displayname
    IN  IF others = <<>> THEN NoName
        ELSE IF Len(others) = 1 THEN member1
        ELSE IF Len(others) = 2
        THEN member1 \o " and " \o s.members[others[2]].displayname
        ELSE member1 \o " and " \o ToString(Len(others)) \o " others"

\* _get_room_name that tries the members before the state table.
_get_room_name_members_first(s) ==
    IF _get_room_name_from_members(s) # NoName
    THEN _get_room_name_from_members(s)
    ELSE IF matrix_statetable_get_room_alias(s) # NoName
    THEN matrix_statetable_get_room_alias(s)
    ELSE RoomId

\* _get_room_name: the official name or alias, else a name made from the
\* members, else the room id.
_get_room_name(s) ==
    IF matrix_statetable_get_room_alias(s) # NoName
    THEN matrix_statetable_get_room_alias(s)
    ELSE IF _get_room_name_from_members(s) # NoName
    THEN _get_room_name_from_members(s)
    ELSE RoomId

\* flags &= ~PURPLE_CONV_FLAG_NEEDS_NAME_UPDATE, flags |= ..., and the test.
\* The word has this one bit.
ClearBit(f) == IF f >= PURPLE_CONV_FLAG_NEEDS_NAME_UPDATE
               THEN f - PURPLE_CONV_FLAG_NEEDS_NAME_UPDATE ELSE f

SetBit(f) == IF f >= PURPLE_CONV_FLAG_NEEDS_NAME_UPDATE
             THEN f ELSE f + PURPLE_CONV_FLAG_NEEDS_NAME_UPDATE

TestBit(f) == f >= PURPLE_CONV_FLAG_NEEDS_NAME_UPDATE

\* _update_room_alias: compute the name, alias the buddy-list entry, set the
\* conversation title if it differs, clear the flag.
_update_room_alias(s) ==
    LET room_name == _get_room_name(s)
        s1 == [s EXCEPT !.ui.alias = room_name,
                        !.last.calls =
                            Append(@, UiCall("alias_chat", <<>>, room_name))]
        s2 == IF room_name # s1.ui.title
              THEN [s1 EXCEPT !.ui.title = room_name,
                              !.last.calls =
                                  Append(@, UiCall("set_title", <<>>, room_name))]
              ELSE s1
    IN  [s2 EXCEPT !.flags = ClearBit(@)]

\* _schedule_name_update.
_schedule_name_update(s) == [s EXCEPT !.flags = SetBit(@)]

(***************************************************************************)
(* State events, the member table and the user list of the conversation.   *)
(***************************************************************************)

\* matrix_roommembers_update_member: store the member's new membership and
\* display name, and note the member as new (it joins), renamed (it stays
\* joined under another display name) or left (it stops being joined).
matrix_roommembers_update_member(s, u, content) ==
    LET old == s.members[u]
        s1  == [s EXCEPT !.members[u].membership = content.membership,
                         !.members[u].displayname = content.displayname]
    IN  IF content.membership = "join"
        THEN IF old.membership # "join"
             THEN [s1 EXCEPT !.pending.new = Append(@, u)]
             ELSE IF old.displayname # content.displayname
             THEN [s1 EXCEPT !.pending.renamed = Append(@, u)]
             ELSE s1
        ELSE IF old.membership = "join"
             THEN [s1 EXCEPT !.pending.left = Append(@, u)]
             ELSE s1

\* _on_member_change.
_on_member_change(s, member_user_id, new_state) ==
    matrix_roommembers_update_member(s, member_user_id, new_state)

\* _on_state_update that looks at member events only.
_on_state_update_members_only(s, event_type, state_key, old_state, new_state) ==
    IF event_type = "m.room.member"
    THEN _schedule_name_update(_on_member_change(s, state_key, new_state))
    ELSE s

\* _on_state_update: a member event goes to the member table and schedules
\* a name update; an alias, canonical alias or name event schedules a name
\* update; old_state is not looked at.
_on_state_update(s, event_type, state_key, old_state, new_state) ==
    IF event_type = "m.room.member"
    THEN _schedule_name_update(_on_member_change(s, state_key, new_state))
    ELSE IF \/ event_type = "m.room.alias"
            \/ event_type = "m.room.canonical_alias"
            \/ event_type = "m.room.name"
    THEN _schedule_name_update(s)
    ELSE s

\* matrix_statetable_update: store the event in its slot and call back with
\* the slot's previous event.
matrix_statetable_update(s, ev) ==
    LET slot == <<ev.type, ev.state_key>>
        old  == s.state_events[slot]
        s1   == [s EXCEPT !.state_events[slot] = ev.content]
    IN  _on_state_update(s1, ev.type, ev.state_key, old, ev.content)

\* matrix_room_handle_state_event.
matrix_room_handle_state_event(s, ev) == matrix_statetable_update(s, ev)

\* A failed g_assert: the process aborts.
AssertFailed(s, where) ==
    [s EXCEPT !.proc = "aborted", !.last.failed = where]

\* purple_conv_chat_add_users: one call for all the names; who are the
\* members the names belong to, in the same order.
purple_conv_chat_add_users(s, names, who, announce_arrivals) ==
    [s EXCEPT
        !.ui.users = [u \in Users |->
            IF \E i \in 1..Len(who) : who[i] = u
            THEN names[CHOOSE i \in 1..Len(who) : who[i] = u]
            ELSE @[u]],
        !.ui.log = Append(@, UiCall("add_users", names, NoName)),
        !.last.calls = Append(@, UiCall("add_users", names,
            IF announce_arrivals THEN "announce" ELSE "quiet"))]

purple_conv_chat_rename_user(s, u, old_name, new_name) ==
    [s EXCEPT !.ui.users[u] = new_name,
              !.ui.log = Append(@, UiCall("rename_user", <<old_name>>,
                                          new_name)),
              !.last.calls = Append(@, UiCall("rename_user", <<old_name>>,
                                              new_name))]

purple_conv_chat_remove_user(s, u, name) ==
    [s EXCEPT !.ui.users[u] = NoName,
              !.ui.log = Append(@, UiCall("remove_user", <<name>>, NoName)),
              !.last.calls = Append(@, UiCall("remove_user", <<name>>, NoName))]

\* The loop of _handle_new_members: the state, and the names and members
\* collected so far (names are prepended).
RECURSIVE NewMembersLoop(_, _, _, _)
NewMembersLoop(s, list, names, who) ==
    IF list = <<>> THEN [s |-> s, names |-> names, who |-> who]
    ELSE LET u == Head(list)
         IN  IF s.members[u].opaque # NoName
             THEN [s |-> AssertFailed(s, "new"), names |-> names, who |-> who]
             ELSE NewMembersLoop(
                      [s EXCEPT !.members[u].opaque = s.members[u].displayname],
                      Tail(list),
                      <<s.members[u].displayname>> \o names,
                      <<u>> \o who)

\* _handle_new_members: pop the new members, remember for each the name
\* given to the UI, and add them to the conversation in one call.
_handle_new_members(s, announce_arrivals) ==
    LET r == NewMembersLoop([s EXCEPT !.pending.new = <<>>], s.pending.new,
                            <<>>, <<>>)
    IN  IF r.s.proc # "running" THEN r.s
        ELSE IF r.names # <<>>
        THEN purple_conv_chat_add_users(r.s, r.names, r.who, announce_arrivals)
        ELSE r.s

\* The loop of _handle_renamed_members without the update of the opaque
\* data.
RECURSIVE RenamedLoopStale(_, _)
RenamedLoopStale(s, list) ==
    IF list = <<>> THEN s
    ELSE LET u == Head(list)
             current_displayname == s.members[u].opaque
             new_displayname == s.members[u].displayname
         IN  IF current_displayname = NoName
             THEN AssertFailed(s, "renamed")
             ELSE RenamedLoopStale(
                      purple_conv_chat_rename_user(s, u, current_displayname,
                                                   new_displayname),
                      Tail(list))

RECURSIVE RenamedLoop(_, _)
RenamedLoop(s, list) ==
    IF list = <<>> THEN s
    ELSE LET u == Head(list)
             current_displayname == s.members[u].opaque
             new_displayname == s.members[u].displayname
         IN  IF current_displayname = NoName
             THEN AssertFailed(s, "renamed")
             ELSE RenamedLoop(
                      [purple_conv_chat_rename_user(s, u, current_displayname,
                                                    new_displayname)
                           EXCEPT !.members[u].opaque = new_displayname],
                      Tail(list))

\* _handle_renamed_members: pop the renamed members and rename each in the
\* conversation from the name last given to the current one.
_handle_renamed_members(s) ==
    IF s.proc # "running" THEN s
    ELSE RenamedLoop([s EXCEPT !.pending.renamed = <<>>], s.pending.renamed)

\* The loop of _handle_left_members without the reset of the opaque data.
RECURSIVE LeftLoopKeeps(_, _)
LeftLoopKeeps(s, list) ==
    IF list = <<>> THEN s
    ELSE LET u == Head(list)
             current_displayname == s.members[u].opaque
         IN  IF current_displayname = NoName
             THEN AssertFailed(s, "left")
             ELSE LeftLoopKeeps(
                      purple_conv_chat_remove_user(s, u, current_displayname),
                      Tail(list))

RECURSIVE LeftLoop(_, _)
LeftLoop(s, list) ==
    IF list = <<>> THEN s
    ELSE LET u == Head(list)
             current_displayname == s.members[u].opaque
         IN  IF current_displayname = NoName
             THEN AssertFailed(s, "left")
             ELSE LeftLoop(
                      [purple_conv_chat_remove_user(s, u, current_displayname)
                           EXCEPT !.members[u].opaque = NoName],
                      Tail(list))

\* _handle_left_members: pop the departed members, remove each from the
\* conversation under the name last given, and forget that name.
_handle_left_members(s) ==
    IF s.proc # "running" THEN s
    ELSE LeftLoop([s EXCEPT !.pending.left = <<>>], s.pending.left)

\* _update_user_list with the departures handled first.
_update_user_list_left_first(s, announce_arrivals) ==
    _handle_renamed_members(
        _handle_new_members(_handle_left_members(s), announce_arrivals))

\* _update_user_list: arrivals, then renames, then departures.
_update_user_list(s, announce_arrivals) ==
    _handle_left_members(
        _handle_renamed_members(_handle_new_members(s, announce_arrivals)))

\* matrix_room_complete_state_update that updates the name first.
matrix_room_complete_state_update_name_first(s, announce_arrivals) ==
    LET s1 == IF TestBit(s.flags) THEN _update_room_alias(s) ELSE s
    IN  _update_user_list(s1, announce_arrivals)

\* matrix_room_complete_state_update: bring the user list up to date, then
\* the room's name if an update is scheduled.
matrix_room_complete_state_update(s, announce_arrivals) ==
    LET s1 == _update_user_list(s, announce_arrivals)
    IN  IF s1.proc # "running" THEN s1
        ELSE IF TestBit(s1.flags) THEN _update_room_alias(s1)
        ELSE s1

(***************************************************************************)
(* The state machine.                                                      *)
(***************************************************************************)

\* The state-event slots of the room: (type, state_key).
StateTypes ==
    {"m.room.member", "m.room.name", "m.room.canonical_alias",
     "m.room.alias", "m.room.topic"}

StateKeys ==
    {<<"m.room.member", u>> : u \in Users}
    \cup {<<ty, Me>> : ty \in StateTypes \ {"m.room.member"}}

\* A member the member table has no entry for.
NoMember == [membership |-> "none", displayname |-> NoName, opaque |-> NoName]

NoPending == [new |-> <<>>, renamed |-> <<>>, left |-> <<>>]

\* The conversation of a new room: titled with the room id, no users, and
\* no call about its user list made yet.
FreshUi ==
    [title |-> RoomId, alias |-> RoomId, users |-> [u \in Users |-> NoName],
     log |-> <<>>]

\* matrix_room_create_conversation: the queue side.
FreshQueue ==
    /\ queue = <<>>
    /\ active_send = NULL
    /\ state_table = "table"
    /\ member_table = "table"
    /\ wants_to_die = FALSE
    /\ outstanding = {}
    /\ uiRef \in [ImageIds -> BOOLEAN]
    /\ imgstore = [i \in ImageIds |-> IF uiRef[i] THEN 1 ELSE 0]
    /\ proc = "running"
    /\ enqueued = <<>>
    /\ completed = <<>>
    /\ uploaded = {}
    /\ released = <<>>
    /\ exits = {}
    /\ last = NoEffects("create")

\* matrix_room_create_conversation: empty tables, no flag, and a
\* conversation the UI shows under the room id.
FreshRoom ==
    /\ flags = NoFlags
    /\ state_events = [k \in StateKeys |-> Absent]
    /\ members = [u \in Users |-> NoMember]
    /\ pending = NoPending
    /\ ui = FreshUi
    /\ delivered = 0

\* A clock that advances between two enqueues, and a constant salt.
SteadyClock ==
    /\ monotonic = [k \in 1..MaxEvents |-> k]
    /\ random = [k \in 1..MaxEvents |-> 0]

\* matrix_room_create_conversation.
Init ==
    /\ FreshQueue
    /\ FreshRoom
    /\ SteadyClock

Joined == state_table # NoTable

\* The transport calls a request back: the request is over.
Deliver(s, r) == [s EXCEPT !.outstanding = @ \ {r}]

Exit(s, r) == [Deliver(s, r) EXCEPT !.exits = @ \cup {r.ev}]

\* The user sends a message in the room (only while the room is joined).
SendMessage ==
    \E msg \in Messages :
        /\ proc = "running"
        /\ Joined
        /\ Len(enqueued) + Len(msg) <= MaxEvents
        /\ Commit(matrix_room_send_message(Begin("send_message"), msg))

SendComplete ==
    \E r \in outstanding :
        /\ proc = "running"
        /\ r.kind = "send"
        /\ Commit(_event_send_complete(Exit(Begin("send_complete"), r)))

SendError ==
    \E r \in outstanding :
        /\ proc = "running"
        /\ r.kind = "send"
        /\ Commit(_event_send_error(Exit(Begin("send_error"), r)))

SendBadResponse ==
    \E r \in outstanding :
        /\ proc = "running"
        /\ r.kind = "send"
        /\ Commit(_event_send_bad_response(
                      Exit(Begin("send_bad_response"), r)))

UploadComplete ==
    \E r \in outstanding, ub \in UBOutcomes :
        /\ proc = "running"
        /\ r.kind = "upload"
        /\ Commit(_image_upload_complete(
                      Deliver(Begin("upload_complete"), r), r.ev, TRUE, ub))

UploadCompleteNoUri ==
    \E r \in outstanding, ub \in UBOutcomes :
        /\ proc = "running"
        /\ r.kind = "upload"
        /\ Commit(_image_upload_complete(
                      Deliver(Begin("upload_no_uri"), r), r.ev, FALSE, ub))

UploadError ==
    \E r \in outstanding, ub \in UBOutcomes :
        /\ proc = "running"
        /\ r.kind = "upload"
        /\ Commit(_image_upload_error(
                      Exit(Begin("upload_error"), r), r.ev, ub))

UploadBadResponse ==
    \E r \in outstanding, ub \in UBOutcomes :
        /\ proc = "running"
        /\ r.kind = "upload"
        /\ Commit(_image_upload_bad_response(
                      Exit(Begin("upload_bad_response"), r), r.ev, ub))

LeaveChat ==
    \E ub \in UBOutcomes :
        /\ proc = "running"
        /\ Commit(matrix_room_leave_chat(Begin("leave"), ub))

\* The connection starts to close.
Shutdown ==
    /\ proc = "running"
    /\ ~wants_to_die
    /\ Commit([Begin("shutdown") EXCEPT !.wants_to_die = TRUE])

\* The UI drops its own reference to an image.
UiUnref ==
    \E i \in ImageIds :
        /\ proc = "running"
        /\ uiRef[i]
        /\ imgstore[i] > 0
        /\ Commit([Begin("ui_unref") EXCEPT !.uiRef[i] = FALSE,
                                            !.imgstore[i] = @ - 1])

\* A message event that carries the transaction id of a queued event.
IsEcho(q, ev) ==
    /\ ev.type = "m.room.message"
    /\ ev.transaction_id \in QueuedTxnIds(q)

\* The sync delivers a timeline event of the room.
TimelineEvent ==
    \E ev \in TimelineEvents(queue) :
        /\ proc = "running"
        /\ Joined
        /\ Commit(matrix_room_handle_timeline_event(
                      [Begin("timeline") EXCEPT !.last.echo = IsEcho(queue, ev)],
                      ev))

Next ==
    \/ SendMessage
    \/ SendComplete
    \/ SendError
    \/ SendBadResponse
    \/ UploadComplete
    \/ UploadCompleteNoUri
    \/ UploadError
    \/ UploadBadResponse
    \/ LeaveChat
    \/ Shutdown
    \/ UiUnref

Spec == Init /\ [][Next]_vars

\* The room as the sync sees it: timeline events arrive while messages are
\* sent, acknowledged or refused, images are uploaded and the room is left.
NextTimeline ==
    \/ SendMessage
    \/ SendComplete
    \/ SendError
    \/ UploadComplete
    \/ LeaveChat
    \/ TimelineEvent

SpecTimeline == Init /\ [][NextTimeline]_vars

(***************************************************************************)
(* Properties.                                                             *)
(***************************************************************************)

InSeq(q, x) == \E i \in 1..Len(q) : q[i] = x

\* C1: in every reachable state at most one transport request (send or
\* upload) of the room is outstanding, i.e. issued and not yet called back
\* or cancelled.
C1_SingleFlight == Cardinality(outstanding) <= 1

\* One request is outstanding while two or more events are queued, after an
\* earlier request of the room has already been called back.
C1_Witness ==
    /\ Cardinality(outstanding) = 1
    /\ Len(queue) >= 2
    /\ active_send \in outstanding
    /\ last.name = "send_message"
    /\ exits # {}

\* C2: while the room is joined, the events removed by successful completion,
\* followed by the events still queued, are exactly the events enqueued, in
\* enqueue order: removal is in enqueue order and the order of the queued
\* events never changes.
C2_Fifo ==
    Joined => (completed \o QueueSeqs(queue) = Iota(Len(enqueued)))

\* Two events were completed and another is still queued.
C2_Witness ==
    /\ Joined
    /\ Len(completed) >= 2
    /\ queue # <<>>

\* C3: when the cancel made by leaving the room returns, the in-flight handle
\* is null and the assertion that follows the cancel has not failed, whatever
\* the state before: no send active, a send, an upload or the phase-2 send of
\* an image outstanding.
C3_CancelLeavesNull ==
    (last.name = "leave")
        => /\ proc # "aborted"
           /\ (proc = "running") => (active_send = NULL)

\* The cancel hit the outstanding phase-2 send of an image event.
C3_Witness ==
    /\ last.name = "leave"
    /\ proc = "running"
    /\ last.cancelled.kind = "send"
    /\ last.cancelled.ev \in uploaded
    /\ last.errors = 1
    /\ active_send = NULL

\* C4: a send for a text event is outstanding only when every image event
\* enqueued before it has had its upload completed and has itself been sent
\* and removed.
C4_ImageBeforeText ==
    \A r \in outstanding :
        (r.kind = "send" /\ ~enqueued[r.ev].hook)
            => \A e \in 1..(r.ev - 1) :
                   enqueued[e].hook
                       => (e \in uploaded /\ InSeq(completed, e))

\* The text event enqueued after an image event is being sent.
C4_Witness ==
    \E r \in outstanding :
        /\ r.kind = "send"
        /\ ~enqueued[r.ev].hook
        /\ \E e \in 1..(r.ev - 1) : enqueued[e].hook

\* C5: a send that fails (transport error or non-success response) leaves
\* the queue exactly as it was, reports one error on the connection and
\* issues no transport request.
C5_FailureKeepsQueue ==
    [][(last'.name \in {"send_error", "send_bad_response"})
          => /\ queue' = queue
             /\ queue' # <<>>
             /\ last'.errors = 1
             /\ last'.issued = <<>>]_vars

\* A send failed with a non-success response while two events were queued.
C5_Witness ==
    /\ last.name = "send_bad_response"
    /\ Len(queue) >= 2
    /\ last.errors = 1

FailureCallbacks ==
    {"send_error", "send_bad_response", "upload_error",
     "upload_bad_response", "upload_no_uri"}

\* C6: after any failure callback of the send path returns (send error, send
\* bad response, upload error, upload bad response, upload success without a
\* content_uri) the in-flight handle is null.
C6_FailureClearsHandle ==
    (last.name \in FailureCallbacks /\ proc = "running")
        => (active_send = NULL)

\* C7: for every image event whose request has ended in one of the exit
\* callbacks (sent, upload error, upload bad response, send error, send bad
\* response), the reference taken at submission has been released exactly
\* once in total.
C7_ReleasedExactlyOnce ==
    \A e \in exits : enqueued[e].hook => (released[e] = 1)

\* C8: an upload that succeeds without a content_uri reports one error,
\* releases the image (the stored image loses one reference), issues no
\* transport request and leaves the queue, with the event and its content,
\* exactly as it was.
C8_MissingLocator ==
    [][(last'.name = "upload_no_uri" /\ proc' = "running")
          => /\ last'.errors = 1
             /\ last'.issued = <<>>
             /\ outstanding' = {}
             /\ queue # <<>>
             /\ queue' = queue
             /\ LET e == Head(queue)
                IN  /\ e.hook
                    /\ IF imgstore[e.img] > 0
                       THEN /\ imgstore'[e.img] = imgstore[e.img] - 1
                            /\ released'[e.seq] = released[e.seq] + 1
                       ELSE /\ imgstore' = imgstore
                            /\ released' = released]_vars

\* The upload of an image event came back without a content_uri, with a text
\* event queued behind it; the image was released.
C8_Witness ==
    /\ last.name = "upload_no_uri"
    /\ proc = "running"
    /\ Len(queue) >= 2
    /\ Head(queue).hook
    /\ ~Head(queue).url
    /\ released[Head(queue).seq] = 1

\* C9: a second matrix_room_leave_chat on a room that has been left is a
\* no-op: it changes no session state, frees nothing again and performs no
\* further action.
C9_SecondLeaveNoOp ==
    [][(~Joined /\ last'.name = "leave")
          => /\ last'.leaves = 0
             /\ ~last'.nullFree
             /\ UNCHANGED <<queue, active_send, state_table, member_table,
                            outstanding, imgstore>>]_vars

\* C10: matrix_room_leave_chat cancels before it frees: the cancel's callback
\* never reads freed event data; when the call returns the handle is null,
\* the queue is empty and both tables are released; and once the room is
\* left no request is outstanding, so no callback can fire afterwards.
C10_LeaveCancelsThenFrees ==
    /\ (last.name = "leave")
          => /\ ~last.uaf
             /\ (proc = "running")
                   => /\ active_send = NULL
                      /\ queue = <<>>
                      /\ state_table = NoTable
                      /\ member_table = NoTable
    /\ (~Joined /\ proc = "running") => (outstanding = {})

\* The room was left while the upload of an image was outstanding and
\* another event was queued behind it.
C10_Witness ==
    /\ last.name = "leave"
    /\ proc = "running"
    /\ last.cancelled.kind = "upload"
    /\ last.errors = 1
    /\ Len(enqueued) >= 2
    /\ queue = <<>>
    /\ outstanding = {}

(***************************************************************************)
(* State events and reconciliation passes.                                 *)
(***************************************************************************)

\* The content of an m.room.member event, and of an event that names the
\* room (or, with NoName, has no name in it).
MemberContent(m, d) == [membership |-> m, displayname |-> d, value |-> NoName]

ValueContent(v) == [membership |-> NoName, displayname |-> NoName, value |-> v]

\* The value a naming event of each type may carry.
NamingValue ==
    [ty \in StateTypes \ {"m.room.member"} |->
        CASE ty = "m.room.name" -> "The Room"
          [] ty = "m.room.canonical_alias" -> "#canon:hs"
          [] ty = "m.room.alias" -> "#alias:hs"
          [] OTHER -> "a topic"]

\* Bound: state events handled during a session.
MaxStateEvents == 4

\* The members the state events are about: the local user and one other.
Actors == {Me, Me + 1}

\* The state events the sync may deliver: a member joins under a name, is
\* invited or leaves; the room gets a name, a canonical alias, an alias or
\* a topic.  The state key of the events that are not about a member is the
\* empty string, here the key Me.
StateEventsIn ==
    [type : {"m.room.member"}, state_key : Actors,
     content : {MemberContent("join", d) : d \in Names}
               \cup {MemberContent(m, "Alice") : m \in {"invite", "leave"}}]
    \cup {[type |-> ty, state_key |-> Me,
           content |-> ValueContent(NamingValue[ty])] :
              ty \in StateTypes \ {"m.room.member"}}

\* sync delivers a state event of the room.
StateEvent ==
    \E ev \in StateEventsIn :
        /\ proc = "running"
        /\ Joined
        /\ delivered < MaxStateEvents
        /\ Commit(matrix_room_handle_state_event(
               [Begin("state_event") EXCEPT
                   !.delivered = @ + 1,
                   !.last.event = ev,
                   !.last.first =
                       state_events[<<ev.type, ev.state_key>>] = Absent],
               ev))

\* sync delivers the end of a batch of state events.
CompleteStateUpdate ==
    \E announce_arrivals \in BOOLEAN :
        /\ proc = "running"
        /\ Joined
        /\ Commit(matrix_room_complete_state_update(
                      Begin("complete_state_update"), announce_arrivals))

\* The rooms after the state events of a first sync and before their
\* reconciliation: every member has at most one event, the joined ones are
\* in the new list, and an update of the name is scheduled if there was any
\* event.
FirstSyncRooms ==
    /\ members \in [Users -> {NoMember} \cup
            [membership : {"join", "invite", "leave"}, displayname : Names,
             opaque : {NoName}]]
    /\ \E named \in SUBSET (StateTypes \ {"m.room.member", "m.room.topic"}) :
           state_events = [k \in StateKeys |->
               IF k[1] = "m.room.member"
               THEN IF members[k[2]] = NoMember THEN Absent
                    ELSE MemberContent(members[k[2]].membership,
                                       members[k[2]].displayname)
               ELSE IF k[1] \in named THEN ValueContent(NamingValue[k[1]])
               ELSE Absent]
    /\ pending = [NoPending EXCEPT !.new =
           SelectSeq(UserList, LAMBDA u : members[u].membership = "join")]
    /\ flags = IF \A k \in StateKeys : state_events[k] = Absent
               THEN NoFlags ELSE PURPLE_CONV_FLAG_NEEDS_NAME_UPDATE
    /\ ui = FreshUi
    /\ delivered = Cardinality({k \in StateKeys : state_events[k] # Absent})

\* The images play no part in the name: the UI holds them all.
InitName ==
    /\ FreshQueue
    /\ \A i \in ImageIds : uiRef[i]
    /\ SteadyClock
    /\ FirstSyncRooms

NextName == CompleteStateUpdate

SpecName == InitName /\ [][NextName]_vars

\* The room under the state events of the sync, each batch of them closed
\* by a reconciliation pass.
NextState ==
    \/ StateEvent
    \/ CompleteStateUpdate

InitState ==
    /\ Init
    /\ \A i \in ImageIds : uiRef[i]

SpecState == InitState /\ [][NextState]_vars

(***************************************************************************)
(* Transaction ids.                                                        *)
(***************************************************************************)

\* Readings of g_get_monotonic_time() (microseconds) and of g_random_int().
TimeReadings == {1, 11}

SaltReadings == {1, 11}

\* The clock never runs backwards; the salt is any number.
InitTxn ==
    /\ FreshQueue
    /\ \A i \in ImageIds : uiRef[i]
    /\ FreshRoom
    /\ monotonic \in [1..MaxEvents -> TimeReadings]
    /\ \A i, j \in 1..MaxEvents : i < j => monotonic[i] <= monotonic[j]
    /\ random \in [1..MaxEvents -> SaltReadings]

NextTxn ==
    \/ SendMessage
    \/ SendComplete
    \/ SendError

SpecTxn == InitTxn /\ [][NextTxn]_vars

(***************************************************************************)
(* The queue when every request succeeds.                                  *)
(***************************************************************************)

\* Messages are sent, the UI may drop its image references, and every send
\* and every upload is answered with success; the connection stays up and
\* the room is not left.
NextDrain ==
    \/ SendMessage
    \/ SendComplete
    \/ UploadComplete
    \/ UiUnref

\* The transport answers every request: a callback that is due arrives.
SpecDrain ==
    /\ Init
    /\ [][NextDrain]_vars
    /\ WF_vars(SendComplete)
    /\ WF_vars(UploadComplete)

\* C11: a timeline step that delivers a message event whose
\* unsigned.transaction_id is the transaction id of an event still in the
\* queue makes no call into the UI and leaves the queue, the in-flight
\* handle and the member table as they were.
C11_EchoDropped ==
    [][(last'.name = "timeline" /\ last'.echo)
        => /\ last'.calls = <<>>
           /\ queue' = queue
           /\ active_send' = active_send
           /\ outstanding' = outstanding
           /\ member_table' = member_table
           /\ members' = members
           /\ pending' = pending]_vars

C11_Witness ==
    /\ last.name = "timeline"
    /\ last.echo
    /\ queue # <<>>
    /\ active_send # NULL

\* The active members other than the local user, in the table's order.
OtherActive ==
    SelectSeq(UserList,
              LAMBDA u : u # Me /\ members[u].membership \in {"join", "invite"})

NoExplicitName ==
    \A ty \in {"m.room.name", "m.room.canonical_alias", "m.room.alias"} :
        state_events[<<ty, Me>>].value = NoName

\* C12: after a reconciliation pass of a room whose state table has no
\* name, canonical alias or alias, the buddy-list alias and the title are:
\* the room id with no other active member, the member's display name with
\* one, "A and B" with two, and "A and k others" with k >= 3 others, A
\* being the first other member and k the count of all others.
C12_NameFromMembers ==
    (last.name = "complete_state_update" /\ NoExplicitName)
    => LET k == Len(OtherActive)
           A == members[OtherActive[1]].displayname
           expected ==
               IF k = 0 THEN RoomId
               ELSE IF k = 1 THEN A
               ELSE IF k = 2
               THEN A \o " and " \o members[OtherActive[2]].displayname
               ELSE A \o " and " \o ToString(k) \o " others"
       IN  ui.alias = expected /\ ui.title = expected

C12_Witness ==
    /\ last.name = "complete_state_update"
    /\ NoExplicitName
    /\ Len(OtherActive) = 3
    /\ members[Me].membership = "join"
    /\ ui.title = "Alice and 3 others"

\* C13: after a reconciliation pass the name is the one the state table
\* yields whenever it yields one; a name made from the members is shown
\* only when the state table yields none; and the room id only when it
\* yields none and no other member is active.
C13_FirstMatchWins ==
    last.name = "complete_state_update"
    => LET explicit == matrix_statetable_get_room_alias(S)
       IN  /\ explicit # NoName => ui.title = explicit
           /\ explicit = NoName <=> NoExplicitName
           /\ ui.title = RoomId => (NoExplicitName /\ OtherActive = <<>>)
           /\ (NoExplicitName /\ OtherActive # <<>>)
                  => ui.title \notin {RoomId} \cup
                         {NamingValue[ty] : ty \in DOMAIN NamingValue}

C13_Witness ==
    /\ last.name = "complete_state_update"
    /\ state_events[<<"m.room.canonical_alias", Me>>].value # NoName
    /\ state_events[<<"m.room.name", Me>>].value = NoName
    /\ Len(OtherActive) = 2
    /\ ui.title = "#canon:hs"

\* C14: a pass whose only pending entry is one new member makes exactly one
\* call about the user list, add-users with the member's name X, and
\* remembers X; a pass whose only entry is that member renamed makes exactly
\* rename-user from the remembered X to the current name Y and remembers Y;
\* a pass whose only entry is that member departed makes exactly
\* remove-user of the remembered Y and forgets the name.
C14_Lifecycle ==
    [][\A u \in Users :
        last'.name = "complete_state_update"
        => /\ pending = [NoPending EXCEPT !.new = <<u>>]
              => /\ ui'.log = Append(ui.log,
                         UiCall("add_users", <<members[u].displayname>>, NoName))
                 /\ members'[u].opaque = members[u].displayname
           /\ pending = [NoPending EXCEPT !.renamed = <<u>>]
              => /\ ui'.log = Append(ui.log,
                         UiCall("rename_user", <<members[u].opaque>>,
                                members[u].displayname))
                 /\ members'[u].opaque = members[u].displayname
           /\ pending = [NoPending EXCEPT !.left = <<u>>]
              => /\ ui'.log = Append(ui.log,
                         UiCall("remove_user", <<members[u].opaque>>, NoName))
                 /\ members'[u].opaque = NoName]_vars

C14_Witness ==
    /\ last.name = "complete_state_update"
    /\ delivered = 3
    /\ ui.log = <<UiCall("add_users", <<"Alice">>, NoName),
                  UiCall("rename_user", <<"Alice">>, "Bob"),
                  UiCall("remove_user", <<"Bob">>, NoName)>>
    /\ members[1].membership = "leave"
    /\ members[1].opaque = NoName

\* The positions of the calls with one of the operations ops in a pass.
CallsAt(calls, ops) == {i \in 1..Len(calls) : calls[i].op \in ops}

\* C15: the calls of one pass come in the order add-users, rename-user,
\* remove-user, with at most one add-users call; every rename and removal
\* names a member by a name given to the UI before; and the assertions of
\* the rename and departure steps never fail.
C15_PassOrder ==
    /\ last.failed \notin {"renamed", "left"}
    /\ last.name = "complete_state_update"
       => /\ Cardinality(CallsAt(last.calls, {"add_users"})) <= 1
          /\ \A i \in CallsAt(last.calls, {"add_users"}),
                j \in CallsAt(last.calls, {"rename_user", "remove_user"}) :
                 i < j
          /\ \A i \in CallsAt(last.calls, {"rename_user"}),
                j \in CallsAt(last.calls, {"remove_user"}) : i < j
          /\ \A j \in CallsAt(last.calls, {"rename_user", "remove_user"}) :
                 last.calls[j].names[1] # NoName

C15_Witness ==
    /\ last.name = "complete_state_update"
    /\ proc = "running"
    /\ CallsAt(last.calls, {"add_users"}) # {}
    /\ CallsAt(last.calls, {"rename_user"}) # {}
    /\ CallsAt(last.calls, {"remove_user"}) # {}
    /\ Len(last.calls[1].names) = 2

NamingTypes == {"m.room.alias", "m.room.canonical_alias", "m.room.name"}

\* C16: a step that handles a state event about a member stores the
\* event's membership and display name in that member's entry, leaves the
\* other entries alone and sets the name-update flag; an alias, canonical
\* alias or name event sets the flag and leaves the member table alone; an
\* event of another type changes neither.  This is so whether or not the
\* slot of the event had a value before.
C16_Routing ==
    [][last'.name = "state_event"
       => LET ev == last'.event
          IN  /\ ev.type = "m.room.member"
                 => /\ members'[ev.state_key].membership
                           = ev.content.membership
                    /\ members'[ev.state_key].displayname
                           = ev.content.displayname
                    /\ \A u \in Users \ {ev.state_key} :
                           members'[u] = members[u]
                    /\ TestBit(flags')
              /\ ev.type \in NamingTypes
                 => /\ members' = members
                    /\ pending' = pending
                    /\ TestBit(flags')
              /\ ev.type \notin NamingTypes \cup {"m.room.member"}
                 => /\ members' = members
                    /\ pending' = pending
                    /\ flags' = flags]_vars

C16_Witness ==
    /\ last.name = "state_event"
    /\ last.event.type = "m.room.canonical_alias"
    /\ ~last.first
    /\ TestBit(flags)
    /\ ui.title = "#canon:hs"

\* C17: a step that handles a state event makes no call into the UI and
\* leaves title and alias alone; title, alias and the calls that set them
\* change only in a reconciliation pass entered with the flag set; in such a
\* pass these calls come after every call about the user list; a pass
\* entered without the flag makes none; and the flag is clear after a pass.
C17_DeferredName ==
    [][/\ last'.name = "state_event"
          => ui' = ui /\ last'.calls = <<>>
       /\ (\/ ui'.title # ui.title
           \/ ui'.alias # ui.alias
           \/ CallsAt(last'.calls, {"alias_chat", "set_title"}) # {})
          => last'.name = "complete_state_update" /\ TestBit(flags)
       /\ (last'.name = "complete_state_update" /\ proc' = "running")
          => /\ ~TestBit(flags')
             /\ TestBit(flags)
                => /\ CallsAt(last'.calls, {"alias_chat"}) # {}
                   /\ \A i \in CallsAt(last'.calls,
                             {"add_users", "rename_user", "remove_user"}),
                         j \in CallsAt(last'.calls,
                             {"alias_chat", "set_title"}) : i < j]_vars

C17_Witness ==
    /\ last.name = "complete_state_update"
    /\ Len(last.calls) = 3
    /\ last.calls[1].op = "add_users"
    /\ last.calls[2].op = "alias_chat"
    /\ last.calls[3].op = "set_title"
    /\ flags = NoFlags

\* C20: while the process runs, the name remembered for a member (its
\* opaque data) is set exactly when the UI has been told the member is in
\* the room and not since that it left, and is then the name the UI was
\* last given for the member; and only a reconciliation pass changes it.
C20_LastAnnounced ==
    [][/\ proc' = "running"
          => \A u \in Users : members'[u].opaque = ui'.users[u]
       /\ (\E u \in Users : members'[u].opaque # members[u].opaque)
          => last'.name = "complete_state_update"]_vars

C20_Witness ==
    /\ proc = "running"
    /\ last.name = "state_event"
    /\ members[1].opaque = "Bob"
    /\ members[1].displayname = "Alice"
    /\ members[Me].opaque = NoName
    /\ members[Me].membership = "join"
    /\ delivered = 4

\* C18: once the connection is shutting down no step issues a send or an
\* upload, whatever callback of an earlier request arrives and whatever is
\* still queued; and a step that finds the queue empty issues nothing.
C18_NoRequestAfterShutdown ==
    [][/\ wants_to_die => last'.issued = <<>>
       /\ (queue' = <<>> /\ last'.name # "leave") => last'.issued = <<>>]_vars

\* C19: every queued event's transaction id is the decimal time of its
\* enqueue followed by the decimal salt, and no two events enqueued during
\* the session have the same transaction id.
C19_UniqueTxnIds ==
    /\ \A i \in 1..Len(queue) :
           queue[i].txn_id = ToString(monotonic[queue[i].seq])
                                 \o ToString(random[queue[i].seq])
    /\ \A i, j \in 1..Len(enqueued) :
           i # j => TxnId(monotonic[i], random[i]) # TxnId(monotonic[j], random[j])

\* C21: when every request is answered with success, the connection stays
\* up and the room is not left, a queue that holds events is eventually
\* empty again with a null in-flight handle, every event enqueued so far
\* having been sent and removed.
C21_QueueDrains ==
    (queue # <<>>)
        ~> (/\ queue = <<>>
            /\ active_send = NULL
            /\ Len(completed) = Len(enqueued))

\* C22: a matrix_room_send_message call made while a request of the room is
\* outstanding only appends to the queue: it issues no request, and the
\* in-flight handle and the outstanding request are as before.
C22_EnqueueWhileInFlight ==
    [][(last'.name = "send_message" /\ outstanding # {})
       => /\ last'.issued = <<>>
          /\ active_send' = active_send
          /\ active_send \in outstanding
          /\ outstanding' = outstanding
          /\ Len(queue') > Len(queue)
          /\ SubSeq(queue', 1, Len(queue)) = queue]_vars

C22_Witness ==
    /\ last.name = "send_message"
    /\ last.issued = <<>>
    /\ Len(queue) = 3
    /\ queue[1].hook
    /\ active_send = [h |-> 1, kind |-> "upload", ev |-> 1]
    /\ active_send \in outstanding

\* C23: in every state of a running process a non-null in-flight handle is
\* the handle of a request that is outstanding (its callback is still due).
C23_HandleIsLive ==
    (proc = "running" /\ active_send # NULL) => active_send \in outstanding

C25_CompletedIsHead ==
    [][last'.name = "send_complete"
       => /\ queue # <<>>
          /\ \E r \in outstanding \ outstanding' :
                 /\ r.kind = "send"
                 /\ r.ev = Head(queue).seq
                 /\ active_send = r
          /\ Head(queue).txn_id = TxnId(monotonic[Head(queue).seq],
                                        random[Head(queue).seq])
          /\ QueueSeqs(queue') = Tail(QueueSeqs(queue))
          /\ completed' = Append(completed, Head(queue).seq)
          /\ proc' = "running"]_vars

C25_Witness ==
    /\ last.name = "send_complete"
    /\ completed = <<1, 2>>
    /\ 1 \in uploaded
    /\ Len(queue) = 1
    /\ queue[1].seq = 3
    /\ active_send \in outstanding

\* C26: when matrix_room_leave_chat returns, every image event that was in
\* the queue and for which a reference on the image was taken at submission
\* has had that reference released exactly once.
C26_LeaveReleasesImages ==
    [][(last'.name = "leave" /\ proc' = "running")
       => \A i \in 1..Len(queue) :
              (queue[i].hook /\ enqueued[queue[i].seq].ref)
              => released'[queue[i].seq] = 1]_vars

\* Event e is an image event with a text event right before and right after
\* it, as matrix_room_send_message enqueues them for text, image, text.
TextImageText(enq, e) ==
    /\ e - 1 \in 1..Len(enq)
    /\ e + 1 \in 1..Len(enq)
    /\ ~enq[e - 1].hook
    /\ enq[e].hook
    /\ ~enq[e + 1].hook

\* C27: a call of matrix_room_send_message that enqueues three events (text,
\* inline image, text) appends them to the queue in the order prefix text,
\* image, suffix text; and on every step an upload is issued for the image
\* event only after the prefix text's send has completed, and a send for the
\* suffix text only after the image event's send has completed.
C27_SplitMessageOrder ==
    [][/\ (last'.name = "send_message" /\ Len(enqueued') = Len(enqueued) + 3)
          => LET n == Len(enqueued)
             IN  /\ TextImageText(enqueued', n + 2)
                 /\ SubSeq(enqueued', 1, n) = enqueued
                 /\ QueueSeqs(queue') =
                        QueueSeqs(queue) \o <<n + 1, n + 2, n + 3>>
                 /\ \A i \in 1..Len(queue') :
                        queue'[i].hook = enqueued'[queue'[i].seq].hook
       /\ \A i \in 1..Len(last'.issued) :
              LET r == last'.issued[i]
              IN  /\ (r.kind = "upload" /\ TextImageText(enqueued', r.ev))
                         => InSeq(completed', r.ev - 1)
                  /\ (r.kind = "send" /\ TextImageText(enqueued', r.ev - 1))
                         => InSeq(completed', r.ev - 1)]_vars

\* The three events of one message are queued, the prefix text's send is the
\* only request ever issued, and nothing has completed or failed yet.
C27_Witness ==
    /\ last.name = "send_message"
    /\ last.issued = <<[kind |-> "send", ev |-> 1]>>
    /\ exits = {}
    /\ Len(enqueued) = 3
    /\ TextImageText(enqueued, 2)
    /\ QueueSeqs(queue) = <<1, 2, 3>>

====
